---------------------------- MODULE Spec2Model ----------------------------
(***************************************************************************)
(* Model of the message board formatter of fusemods.js.                    *)
(*                                                                         *)
(* A JavaScript string is a tuple of one-character strings, so that the    *)
(* regular-expression split, escapeHtml, the template literals that build  *)
(* the markup and the class-name tests startsWith(...) are all computed    *)
(* character by character, as the code computes them.                      *)
(*                                                                         *)
(* One behaviour is one call of formatMessageBoardText: Init is the state  *)
(* of the call when the for loop is first entered (lines 107-112 done),    *)
(* each action is one iteration of the loop (one branch of its body), and  *)
(* Return is line 160.                                                     *)
(***************************************************************************)
EXTENDS Naturals, Sequences, FiniteSets

\* ------------------------------------------------------------------------
\* Bounds of the model
\* ------------------------------------------------------------------------

\* An input is the concatenation of at most MaxPieces pieces of Pieces.
MaxPieces == 4

\* ------------------------------------------------------------------------
\* String helpers (JavaScript String / Array methods)
\* ------------------------------------------------------------------------

\* The falsy value: null (activeColorClass) and undefined (a missed lookup).
NULL == <<>>

RECURSIVE Flatten(_)
\* Concatenation of a sequence of strings.
Flatten(ss) == IF ss = <<>> THEN <<>> ELSE Head(ss) \o Flatten(Tail(ss))

\* String.prototype.startsWith
startsWith(s, prefix) ==
    /\ Len(prefix) <= Len(s)
    /\ SubSeq(s, 1, Len(prefix)) = prefix

RECURSIVE join(_, _)
\* Array.prototype.join
join(arr, sep) ==
    IF arr = <<>> THEN <<>>
    ELSE IF Len(arr) = 1 THEN arr[1]
    ELSE arr[1] \o sep \o join(Tail(arr), sep)

\* ------------------------------------------------------------------------
\* escapeHtml (lines 68-77)
\* ------------------------------------------------------------------------

\* The characters the regular expression /[&<>"']/g matches.
escapeChars == {"&", "<", ">", "\"", "'"}

\* The replacement table `map` of escapeHtml.
escapeMap ==
    [m \in escapeChars |->
        CASE m = "&"  -> <<"&", "a", "m", "p", ";">>
          [] m = "<"  -> <<"&", "l", "t", ";">>
          [] m = ">"  -> <<"&", "g", "t", ";">>
          [] m = "\"" -> <<"&", "q", "u", "o", "t", ";">>
          [] m = "'"  -> <<"&", "#", "0", "3", "9", ";">>]

\* escapeChar for the expression /&/g: only the ampersand is replaced.
escapeCharAmpersandOnly(c) == IF c = "&" THEN escapeMap[c] ELSE <<c>>

\* escapeChar for the expression /[&<>"]/g: the apostrophe is left out.
escapeCharSkipsApostrophe(c) ==
    IF c \in escapeChars \ {"'"} THEN escapeMap[c] ELSE <<c>>

\* The replacement of one character: the callback for a match, the
\* character itself otherwise.
escapeChar(c) == IF c \in escapeChars THEN escapeMap[c] ELSE <<c>>

RECURSIVE escapeHtml(_)
escapeHtml(text) ==
    IF text = <<>> THEN <<>>
    ELSE escapeChar(Head(text)) \o escapeHtml(Tail(text))

\* ------------------------------------------------------------------------
\* formatMap (lines 87-105)
\* ------------------------------------------------------------------------

colorPrefix == <<"m", "e", "s", "s", "a", "g", "e", "-", "c", "o", "l", "o", "r", "-">>
formatPrefix == <<"m", "e", "s", "s", "a", "g", "e", "-", "f", "o", "r", "m", "a", "t", "-">>

classReset == formatPrefix \o <<"r", "e", "s", "e", "t">>
classObfuscated == formatPrefix \o <<"o", "b", "f", "u", "s", "c", "a", "t", "e", "d">>
classBold == formatPrefix \o <<"b", "o", "l", "d">>
classStrikethrough ==
    formatPrefix \o <<"s", "t", "r", "i", "k", "e", "t", "h", "r", "o", "u", "g", "h">>
classUnderline == formatPrefix \o <<"u", "n", "d", "e", "r", "l", "i", "n", "e">>
classItalic == formatPrefix \o <<"i", "t", "a", "l", "i", "c">>

\* The keys of the object literal, each "&" followed by this character.
formatMapKeys == {"0", "1", "2", "3", "4", "5", "k", "l", "m", "n", "i", "b", "r"}

\* The object literal; the key '&i' is written twice with the same value.
formatMap ==
    [k \in formatMapKeys |->
        CASE k \in {"0", "1", "2", "3", "4", "5"} -> colorPrefix \o <<k>>
          [] k = "k" -> classObfuscated
          [] k = "l" -> classBold
          [] k = "m" -> classStrikethrough
          [] k = "n" -> classUnderline
          [] k = "i" -> classItalic
          [] k = "b" -> classBold
          [] k = "r" -> classReset]

\* lookup with a colour class made up for every digit, not only 0 to 5.
lookupAnyDigit(code) ==
    IF Len(code) = 2 /\ code[1] = "&" /\ code[2] \in formatMapKeys
    THEN formatMap[code[2]]
    ELSE IF Len(code) = 2 /\ code[2] \in {"6", "7", "8", "9"}
         THEN colorPrefix \o <<code[2]>>
         ELSE NULL

\* lookup in a formatMap without the alias '&b'.
lookupWithoutAlias(code) ==
    IF Len(code) = 2 /\ code[1] = "&" /\ code[2] \in formatMapKeys \ {"b"}
    THEN formatMap[code[2]]
    ELSE NULL

\* formatMap[code] for code = '&' + part: undefined when the key is absent.
lookup(code) ==
    IF Len(code) = 2 /\ code[1] = "&" /\ code[2] \in formatMapKeys
    THEN formatMap[code[2]]
    ELSE NULL

\* ------------------------------------------------------------------------
\* The split (line 112)
\* ------------------------------------------------------------------------

\* The character class [0-9a-fA-FklmnoBIr] of the regular expression.
splitAlphabet ==
    {"0", "1", "2", "3", "4", "5", "6", "7", "8", "9"}
    \cup {"a", "b", "c", "d", "e", "f"}
    \cup {"A", "B", "C", "D", "E", "F"}
    \cup {"k", "l", "m", "n", "o", "B", "I", "r"}

\* matchAt for the expression /&(.)/: any character after the marker.
matchAtAnyCharacter(s, p) ==
    /\ p + 1 <= Len(s)
    /\ s[p] = "&"

\* Whether /&([0-9a-fA-FklmnoBIr])/ matches at position p of s.
matchAt(s, p) ==
    /\ p + 1 <= Len(s)
    /\ s[p] = "&"
    /\ s[p + 1] \in splitAlphabet

RECURSIVE splitFrom(_, _, _)
\* String.prototype.split with a capturing group, scanning from position p
\* with cur the text collected since the last match: the matches are found
\* left to right and do not overlap, and each contributes its capture.
splitFrom(s, p, cur) ==
    IF p > Len(s) THEN <<cur>>
    ELSE IF matchAt(s, p)
         THEN <<cur, <<s[p + 1]>>>> \o splitFrom(s, p + 2, <<>>)
         ELSE splitFrom(s, p + 1, Append(cur, s[p]))

split(s) == splitFrom(s, 1, <<>>)

\* ------------------------------------------------------------------------
\* Inputs
\* ------------------------------------------------------------------------

Pieces ==
    { <<"&", "1">>, <<"&", "2">>, <<"&", "l">>, <<"&", "b">>, <<"&", "n">>,
      <<"&", "i">>, <<"&", "r">>, <<"&", "6">>, <<"&">>, <<"x">>, <<"<">> }

Inputs ==
    { Flatten(ps) : ps \in UNION { [1..n -> Pieces] : n \in 0..MaxPieces } }

\* ------------------------------------------------------------------------
\* State of one call of formatMessageBoardText
\* ------------------------------------------------------------------------

VARIABLES
    originalTextContent,  \* the argument
    parts,                \* line 112
    i,                    \* the loop index (0-based, as in the code)
    formattedHtml,        \* line 107
    activeClasses,        \* line 108: a Set, kept in insertion order
    activeColorClass,     \* line 109: NULL or a class name
    pc                    \* "loop" | "done"

\* ------------------------------------------------------------------------
\* State outside the call: the callers of the two functions and the page
\* ------------------------------------------------------------------------

VARIABLES
    earlier,       \* an earlier call, as its caller saw it: argument and result
    escArg,        \* escapeHtml called on its own: the argument,
    escResult,     \*   the result,
    escAgain,      \*   the result of escaping the result,
    escCalls,      \*   and how many of the two calls have been made
    messages,      \* the .message elements of the document
    statuses,      \* the .status-value elements of the document
    pending,       \* mutation records wait for the observer's callback
    stopped        \* the page has stopped changing the document

engineVars == <<originalTextContent, parts, i, formattedHtml, activeClasses,
                activeColorClass, pc>>
callerVars == <<earlier>>
escVars == <<escArg, escResult, escAgain, escCalls>>
domVars == <<messages, statuses, pending, stopped>>
others == <<callerVars, escVars, domVars>>

vars == <<engineVars, others>>

\* No earlier call.
NoCall == [called |-> FALSE, text |-> <<>>, html |-> <<>>]

\* The state outside the call while one call of formatMessageBoardText is
\* followed on its own.
OthersIdle ==
    /\ earlier = NoCall
    /\ escArg = <<>> /\ escResult = <<>> /\ escAgain = <<>> /\ escCalls = 0
    /\ messages = <<>> /\ statuses = <<>>
    /\ pending = FALSE /\ stopped = FALSE

\* The locals of formatMessageBoardText while no call of it is followed.
EngineIdle ==
    /\ originalTextContent = <<>>
    /\ parts = <<>>
    /\ i = 0
    /\ formattedHtml = <<>>
    /\ activeClasses = <<>>
    /\ activeColorClass = NULL
    /\ pc = "idle"

\* parts[i] of the code (TLA+ sequences start at 1).
part == parts[i + 1]

Init ==
    /\ originalTextContent \in Inputs
    /\ parts = split(originalTextContent)
    /\ i = 0
    /\ formattedHtml = <<>>
    /\ activeClasses = <<>>
    /\ activeColorClass = NULL
    /\ pc = "loop"
    /\ OthersIdle

\* setAdd as Array.prototype.push: a value already present is added again.
setAddAgain(set, v) == Append(set, v)

\* Set.prototype.add: a value already present keeps its place.
setAdd(set, v) ==
    IF \E k \in 1..Len(set) : set[k] = v THEN set ELSE Append(set, v)

\* Lines 122-125 and 145-148: Array.from(activeClasses), then the colour.
classesToApply(classes, color) ==
    IF color # NULL THEN Append(classes, color) ELSE classes

spanOpen == <<"<", "s", "p", "a", "n", " ", "c", "l", "a", "s", "s", "=", "\"">>
spanMid == <<"\"", ">">>
spanClose == <<"<", "/", "s", "p", "a", "n", ">">>

\* emit without the test of line 126/150: a span even for no class.
emitAlwaysWraps(classes, color, text) ==
    spanOpen \o join(classesToApply(classes, color), <<" ">>) \o spanMid
    \o escapeHtml(text) \o spanClose

\* Lines 126-130 and 150-156: what is appended to formattedHtml for `text`.
emit(classes, color, text) ==
    LET cs == classesToApply(classes, color)
    IN IF Len(cs) > 0
       THEN spanOpen \o join(cs, <<" ">>) \o spanMid \o escapeHtml(text) \o spanClose
       ELSE escapeHtml(text)

InLoop == pc = "loop" /\ i < Len(parts)
IsCode == i % 2 = 1
code == <<"&">> \o part
className == lookup(code)

\* StepUnrecognized that skips the code without appending it.
StepUnrecognizedDrops ==
    /\ InLoop /\ IsCode
    /\ className = NULL
    /\ i' = i + 1
    /\ UNCHANGED others
    /\ UNCHANGED <<originalTextContent, parts, formattedHtml, activeClasses,
                   activeColorClass, pc>>

\* Lines 120-132: the code is not a key of formatMap.
StepUnrecognized ==
    /\ InLoop /\ IsCode
    /\ className = NULL
    /\ formattedHtml' = formattedHtml \o emit(activeClasses, activeColorClass, code)
    /\ i' = i + 1
    /\ UNCHANGED others
    /\ UNCHANGED <<originalTextContent, parts, activeClasses, activeColorClass, pc>>

\* StepReset that forgets the colour (line 136 missing).
StepResetKeepsColor ==
    /\ InLoop /\ IsCode
    /\ className # NULL
    /\ className = classReset
    /\ activeClasses' = <<>>
    /\ i' = i + 1
    /\ UNCHANGED others
    /\ UNCHANGED <<originalTextContent, parts, formattedHtml, activeColorClass, pc>>

\* Lines 134-136.
StepReset ==
    /\ InLoop /\ IsCode
    /\ className # NULL
    /\ className = classReset
    /\ activeClasses' = <<>>
    /\ activeColorClass' = NULL
    /\ i' = i + 1
    /\ UNCHANGED others
    /\ UNCHANGED <<originalTextContent, parts, formattedHtml, pc>>

\* StepColor with a colour that does not replace the one already active.
StepColorKeepsFirst ==
    /\ InLoop /\ IsCode
    /\ className # NULL
    /\ className # classReset
    /\ startsWith(className, colorPrefix)
    /\ activeColorClass' = IF activeColorClass = NULL THEN className ELSE activeColorClass
    /\ i' = i + 1
    /\ UNCHANGED others
    /\ UNCHANGED <<originalTextContent, parts, formattedHtml, activeClasses, pc>>

\* Lines 137-138.
StepColor ==
    /\ InLoop /\ IsCode
    /\ className # NULL
    /\ className # classReset
    /\ startsWith(className, colorPrefix)
    /\ activeColorClass' = className
    /\ i' = i + 1
    /\ UNCHANGED others
    /\ UNCHANGED <<originalTextContent, parts, formattedHtml, activeClasses, pc>>

\* StepFormat with formats and colour exclusive: the format ends the colour.
StepFormatDropsColor ==
    /\ InLoop /\ IsCode
    /\ className # NULL
    /\ className # classReset
    /\ ~startsWith(className, colorPrefix)
    /\ startsWith(className, formatPrefix)
    /\ activeClasses' = setAdd(activeClasses, className)
    /\ activeColorClass' = NULL
    /\ i' = i + 1
    /\ UNCHANGED others
    /\ UNCHANGED <<originalTextContent, parts, formattedHtml, pc>>

\* Lines 139-140.
StepFormat ==
    /\ InLoop /\ IsCode
    /\ className # NULL
    /\ className # classReset
    /\ ~startsWith(className, colorPrefix)
    /\ startsWith(className, formatPrefix)
    /\ activeClasses' = setAdd(activeClasses, className)
    /\ i' = i + 1
    /\ UNCHANGED others
    /\ UNCHANGED <<originalTextContent, parts, formattedHtml, activeColorClass, pc>>

\* Lines 142-157, text.length > 0.
StepText ==
    /\ InLoop /\ ~IsCode
    /\ Len(part) > 0
    /\ formattedHtml' = formattedHtml \o emit(activeClasses, activeColorClass, part)
    /\ i' = i + 1
    /\ UNCHANGED others
    /\ UNCHANGED <<originalTextContent, parts, activeClasses, activeColorClass, pc>>

\* StepEmptyText without the test of line 144: the empty text is emitted.
StepEmptyTextEmits ==
    /\ InLoop /\ ~IsCode
    /\ Len(part) = 0
    /\ formattedHtml' = formattedHtml \o emit(activeClasses, activeColorClass, part)
    /\ i' = i + 1
    /\ UNCHANGED others
    /\ UNCHANGED <<originalTextContent, parts, activeClasses, activeColorClass, pc>>

\* Lines 142-157, text.length = 0: nothing is appended.
StepEmptyText ==
    /\ InLoop /\ ~IsCode
    /\ Len(part) = 0
    /\ i' = i + 1
    /\ UNCHANGED others
    /\ UNCHANGED <<originalTextContent, parts, formattedHtml, activeClasses,
                   activeColorClass, pc>>

\* Line 160: the loop is over.
Return ==
    /\ pc = "loop" /\ i = Len(parts)
    /\ pc' = "done"
    /\ UNCHANGED others
    /\ UNCHANGED <<originalTextContent, parts, i, formattedHtml, activeClasses,
                   activeColorClass>>

Next ==
    \/ StepUnrecognized
    \/ StepReset
    \/ StepColor
    \/ StepFormat
    \/ StepText
    \/ StepEmptyText
    \/ Return

Spec == Init /\ [][Next]_vars

\* ------------------------------------------------------------------------
\* formatMessageBoardText as a function of its argument (lines 86-161)
\* ------------------------------------------------------------------------

RECURSIVE loopFrom(_, _, _, _, _)
\* The for loop from index k on, with the locals as they stand.
loopFrom(ps, k, html, classes, color) ==
    IF k >= Len(ps) THEN html
    ELSE LET p == ps[k + 1]
             cn == lookup(<<"&">> \o p)
         IN IF k % 2 = 1
            THEN IF cn = NULL
                 THEN loopFrom(ps, k + 1, html \o emit(classes, color, <<"&">> \o p),
                               classes, color)
                 ELSE IF cn = classReset
                 THEN loopFrom(ps, k + 1, html, <<>>, NULL)
                 ELSE IF startsWith(cn, colorPrefix)
                 THEN loopFrom(ps, k + 1, html, classes, cn)
                 ELSE IF startsWith(cn, formatPrefix)
                 THEN loopFrom(ps, k + 1, html, setAdd(classes, cn), color)
                 ELSE loopFrom(ps, k + 1, html, classes, color)
            ELSE IF Len(p) > 0
                 THEN loopFrom(ps, k + 1, html \o emit(classes, color, p), classes, color)
                 ELSE loopFrom(ps, k + 1, html, classes, color)

formatMessageBoardText(text) == loopFrom(split(text), 0, <<>>, <<>>, NULL)

\* The loop followed step by step returns what the function form gives.
StepsAgreeWithFunction ==
    pc = "done" => formattedHtml = formatMessageBoardText(originalTextContent)


\* ------------------------------------------------------------------------
\* Reading the output back: the segments of a piece of markup
\* ------------------------------------------------------------------------

\* The least k >= p with s[k] = c, or Len(s) + 1 when there is none.
IndexFrom(s, c, p) ==
    LET ks == { k \in p..Len(s) : s[k] = c }
    IN IF ks = {} THEN Len(s) + 1 ELSE CHOOSE k \in ks : \A j \in ks : k <= j

Drop(s, n) == SubSeq(s, n + 1, Len(s))

RECURSIVE Words(_)
\* The space-separated words of a class attribute.
Words(attr) ==
    LET k == IndexFrom(attr, " ", 1)
    IN IF k > Len(attr) THEN <<attr>>
       ELSE <<SubSeq(attr, 1, k - 1)>> \o Words(Drop(attr, k))

\* A segment read back from markup: `wrapped` says whether it is a span,
\* `classes` are the words of its class attribute, `text` its (still
\* escaped) content.  Markup that is neither a span as the engine writes it
\* nor plain content reads back as BadSegment.
Segment(w, cs, t) == [wrapped |-> w, classes |-> cs, text |-> t, bad |-> FALSE]
BadSegment == [wrapped |-> FALSE, classes |-> <<>>, text |-> <<>>, bad |-> TRUE]

RECURSIVE Segments(_)
Segments(h) ==
    IF h = <<>> THEN <<>>
    ELSE IF startsWith(h, spanOpen)
    THEN LET afterOpen == Drop(h, Len(spanOpen))
             q == IndexFrom(afterOpen, "\"", 1)
             attr == SubSeq(afterOpen, 1, q - 1)
             afterAttr == Drop(afterOpen, q - 1)
         IN IF ~startsWith(afterAttr, spanMid) THEN <<BadSegment>>
            ELSE LET body == Drop(afterAttr, Len(spanMid))
                     e == IndexFrom(body, "<", 1)
                     rest == Drop(body, e - 1)
                 IN IF ~startsWith(rest, spanClose) THEN <<BadSegment>>
                    ELSE <<Segment(TRUE, Words(attr), SubSeq(body, 1, e - 1))>>
                         \o Segments(Drop(rest, Len(spanClose)))
    ELSE IF h[1] = "<" THEN <<BadSegment>>
    ELSE LET e == IndexFrom(h, "<", 1)
         IN <<Segment(FALSE, <<>>, SubSeq(h, 1, e - 1))>> \o Segments(Drop(h, e - 1))

\* The character references of the Escaper, read backwards.
Entities ==
    { <<"&", "a", "m", "p", ";">>, <<"&", "l", "t", ";">>, <<"&", "g", "t", ";">>,
      <<"&", "q", "u", "o", "t", ";">>, <<"&", "#", "0", "3", "9", ";">> }

EntityChar(e) ==
    CASE e = <<"&", "a", "m", "p", ";">> -> "&"
      [] e = <<"&", "l", "t", ";">> -> "<"
      [] e = <<"&", "g", "t", ";">> -> ">"
      [] e = <<"&", "q", "u", "o", "t", ";">> -> "\""
      [] e = <<"&", "#", "0", "3", "9", ";">> -> "'"

RECURSIVE Unescape(_)
\* The text an escaped content stands for; a "&" that starts no character
\* reference, or a bare < > " ', reads back as the one-element string "?bad".
Unescape(t) ==
    IF t = <<>> THEN <<>>
    ELSE IF t[1] = "&"
    THEN LET k == IndexFrom(t, ";", 1)
             e == SubSeq(t, 1, k)
         IN IF k <= Len(t) /\ e \in Entities
            THEN <<EntityChar(e)>> \o Unescape(Drop(t, k))
            ELSE <<"?bad">>
    ELSE IF t[1] \in escapeChars THEN <<"?bad">>
    ELSE <<t[1]>> \o Unescape(Drop(t, 1))

RECURSIVE TextOf(_)
\* The un-escaped text content of a sequence of segments, wrappers removed.
TextOf(segs) ==
    IF segs = <<>> THEN <<>>
    ELSE IF Head(segs).bad THEN <<"?bad">>
    ELSE Unescape(Head(segs).text) \o TextOf(Tail(segs))

\* What the step just taken appended to formattedHtml.
Appended == SubSeq(formattedHtml', Len(formattedHtml) + 1, Len(formattedHtml'))

\* ------------------------------------------------------------------------
\* The Code Table of the specification (section 4.4)
\* ------------------------------------------------------------------------

TableColorCodes == {"0", "1", "2", "3", "4", "5"}
TableFormatCodes == {"k", "l", "b", "m", "n", "i"}
TableResetCodes == {"r"}
TableCodes == TableColorCodes \cup TableFormatCodes \cup TableResetCodes

\* The class of a row of the table.
TableClass(c) ==
    CASE c \in TableColorCodes -> colorPrefix \o <<c>>
      [] c = "k" -> classObfuscated
      [] c \in {"l", "b"} -> classBold
      [] c = "m" -> classStrikethrough
      [] c = "n" -> classUnderline
      [] c = "i" -> classItalic
      [] c = "r" -> classReset

\* The closed set of class names of the styling contract (section 6).
ClosedClassSet ==
    { colorPrefix \o <<c>> : c \in TableColorCodes }
    \cup { classBold, classStrikethrough, classUnderline, classItalic,
           classObfuscated, classReset }

\* The token under the loop index, as the specification's Tokenizer names it.
AtCodeToken == pc = "loop" /\ i < Len(parts) /\ i % 2 = 1
AtTextToken == pc = "loop" /\ i < Len(parts) /\ i % 2 = 0
Done == pc = "done"

\* The marker character.
Amp == "&"

\* ------------------------------------------------------------------------
\* C1
\* ------------------------------------------------------------------------

\* The input is "&i" followed by a non-empty text free of markers.
ItalicInput ==
    /\ Len(originalTextContent) > 2
    /\ SubSeq(originalTextContent, 1, 2) = <<Amp, "i">>
    /\ \A k \in 3..Len(originalTextContent) : originalTextContent[k] # Amp

\* C1: decoding "&i" followed by a non-empty marker-free text t yields one
\* segment that carries t and whose class list contains
\* message-format-italic; the characters "&i" are not in the output.
C1_ItalicCodeApplied ==
    (Done /\ ItalicInput) =>
        LET segs == Segments(formattedHtml)
        IN /\ Len(segs) = 1
           /\ ~segs[1].bad
           /\ \E k \in 1..Len(segs[1].classes) : segs[1].classes[k] = classItalic
           /\ Unescape(segs[1].text) = Drop(originalTextContent, 2)

\* ------------------------------------------------------------------------
\* C2
\* ------------------------------------------------------------------------

\* C2: every code token of the split (every odd-indexed part) has an entry
\* in the Code Table, so the "not recognized" branch is never taken.
C2_EveryCodeTokenInTable ==
    \A k \in 1..Len(parts) : (k - 1) % 2 = 1 => parts[k][1] \in TableCodes

\* ------------------------------------------------------------------------
\* C3
\* ------------------------------------------------------------------------

IsColorClass(c) == c \in { colorPrefix \o <<d>> : d \in TableColorCodes }

RECURSIVE ColorAfter(_, _)
\* The colour the Code Table gives after the first n tokens of ps: the class
\* of the most recent colour code since the start or the last reset.
ColorAfter(ps, n) ==
    IF n = 0 THEN NULL
    ELSE IF (n - 1) % 2 = 1 /\ ps[n][1] \in TableColorCodes THEN TableClass(ps[n][1])
    ELSE IF (n - 1) % 2 = 1 /\ ps[n][1] \in TableResetCodes THEN NULL
    ELSE ColorAfter(ps, n - 1)

\* The colour classes among a class list, in order.
ColorsOf(cs) == SelectSeq(cs, IsColorClass)

\* After any sequence of tokens the active colour is unset or the one class
\* of the most recent colour code.
C3_ActiveColor ==
    /\ activeColorClass = NULL \/ IsColorClass(activeColorClass)
    /\ activeColorClass = ColorAfter(parts, i)

\* Every segment a step emits carries that colour and no other.
C3_EmittedColor ==
    formattedHtml' # formattedHtml =>
        LET segs == Segments(Appended)
            want == ColorAfter(parts, i)
        IN /\ Len(segs) = 1
           /\ ~segs[1].bad
           /\ ColorsOf(segs[1].classes) = IF want = NULL THEN <<>> ELSE <<want>>

\* C3: colours are mutually exclusive: the active colour is unset or exactly
\* one message-color-* class, and every emitted segment carries at most one
\* colour class, the class of the most recent colour code seen since the
\* start of the call or the last reset.
C3_ColorExclusive == [](C3_ActiveColor) /\ [][C3_EmittedColor]_vars

\* "&1&2x" decoded: one segment, styled with message-color-2 only.
C3_Witness ==
    /\ Done
    /\ originalTextContent = <<Amp, "1", Amp, "2", "x">>
    /\ formattedHtml =
         spanOpen \o colorPrefix \o <<"2">> \o spanMid \o <<"x">> \o spanClose

\* ------------------------------------------------------------------------
\* Shared by the claims below
\* ------------------------------------------------------------------------

\* Whether ps[n] is a code token (an odd-indexed part, counting from 0).
IsCodeAt(n) == (n - 1) % 2 = 1

Range(f) == { f[k] : k \in DOMAIN f }

\* The Escaper of the specification (section 4.1), from its table of
\* character references.
SpecEscapeChar(c) ==
    IF c \in escapeChars THEN CHOOSE e \in Entities : EntityChar(e) = c ELSE <<c>>

RECURSIVE SpecEscape(_)
SpecEscape(t) ==
    IF t = <<>> THEN <<>> ELSE SpecEscapeChar(Head(t)) \o SpecEscape(Tail(t))

\* The one segment the specification's emission rule gives for raw text t
\* under class list cs: a span when cs is not empty, bare text otherwise.
SpecSegment(cs, t) == Segment(cs # <<>>, cs, SpecEscape(t))

\* The class list in effect in the current state: formats, then the colour.
ActiveClassList ==
    activeClasses \o (IF activeColorClass = NULL THEN <<>> ELSE <<activeColorClass>>)

StateUnchanged ==
    /\ activeClasses' = activeClasses
    /\ activeColorClass' = activeColorClass

\* ------------------------------------------------------------------------
\* C4
\* ------------------------------------------------------------------------

RECURSIVE AfterReset(_, _)
\* Among the first n tokens of ps, the most recent code of the Code Table is
\* a reset: no colour or format code came after it.
AfterReset(ps, n) ==
    IF n = 0 THEN FALSE
    ELSE IF IsCodeAt(n) /\ ps[n][1] \in TableResetCodes THEN TRUE
    ELSE IF IsCodeAt(n) /\ ps[n][1] \in TableColorCodes \cup TableFormatCodes THEN FALSE
    ELSE AfterReset(ps, n - 1)

\* The step of a reset code clears colour and formats and emits nothing.
C4_ResetStep ==
    (AtCodeToken /\ part[1] \in TableResetCodes) =>
        /\ activeClasses' = <<>>
        /\ activeColorClass' = NULL
        /\ formattedHtml' = formattedHtml
        /\ i' = i + 1

\* A text token after a reset, with no colour or format code in between, is
\* emitted bare.
C4_TextAfterReset ==
    (AtTextToken /\ Len(part) > 0 /\ AfterReset(parts, i)) =>
        Segments(Appended) = <<Segment(FALSE, <<>>, SpecEscape(part))>>

\* C4: a reset code sets the state to (no colour, no formats) in one step
\* and emits nothing, whatever the state before it; text after a reset and
\* before the next recognised colour or format code is emitted bare, with
\* no span; message-format-reset is never an active format.
C4_ResetClears ==
    /\ [](classReset \notin Range(activeClasses))
    /\ [][C4_ResetStep /\ C4_TextAfterReset]_vars

\* "&1x&rx" decoded: the first x coloured, the second bare.
C4_Witness ==
    /\ Done
    /\ originalTextContent = <<Amp, "1", "x", Amp, "r", "x">>
    /\ formattedHtml =
         spanOpen \o colorPrefix \o <<"1">> \o spanMid \o <<"x">> \o spanClose
         \o <<"x">>

\* ------------------------------------------------------------------------
\* C5
\* ------------------------------------------------------------------------

\* A format class joins the list once, at the place of its first addition.
AddOnce(fs, c) == IF c \in Range(fs) THEN fs ELSE fs \o <<c>>

RECURSIVE FormatsAfter(_, _)
\* The format classes the Code Table gives after the first n tokens of ps:
\* those added since the start or the last reset, in order of first addition.
FormatsAfter(ps, n) ==
    IF n = 0 THEN <<>>
    ELSE IF IsCodeAt(n) /\ ps[n][1] \in TableResetCodes THEN <<>>
    ELSE IF IsCodeAt(n) /\ ps[n][1] \in TableFormatCodes
         THEN AddOnce(FormatsAfter(ps, n - 1), TableClass(ps[n][1]))
    ELSE FormatsAfter(ps, n - 1)

\* The class list the specification gives a text token after n tokens.
ClassListAfter(ps, n) ==
    FormatsAfter(ps, n)
    \o (IF ColorAfter(ps, n) = NULL THEN <<>> ELSE <<ColorAfter(ps, n)>>)

C5_TextStep ==
    (AtTextToken /\ Len(part) > 0) =>
        Segments(Appended) = <<SpecSegment(ClassListAfter(parts, i), part)>>

\* C5: the class list of the segment of every non-empty text token is the
\* distinct format classes added since the last reset (or the start), in the
\* order each was first added, followed by the active colour class if set.
C5_ClassListOrder ==
    /\ [](activeClasses = FormatsAfter(parts, i))
    /\ [][C5_TextStep]_vars

\* "&1&l&nx" decoded: bold, underline, then the colour that came first.
C5_Witness ==
    /\ Done
    /\ originalTextContent = <<Amp, "1", Amp, "l", Amp, "n", "x">>
    /\ formattedHtml =
         spanOpen \o classBold \o <<" ">> \o classUnderline \o <<" ">>
         \o colorPrefix \o <<"1">> \o spanMid \o <<"x">> \o spanClose

\* ------------------------------------------------------------------------
\* C6
\* ------------------------------------------------------------------------

RECURSIVE DeleteCodes(_, _, _)
\* The string s from position p on, with every marker that is followed by a
\* character of cs deleted together with that character.
DeleteCodes(s, p, cs) ==
    IF p > Len(s) THEN <<>>
    ELSE IF p + 1 <= Len(s) /\ s[p] = Amp /\ s[p + 1] \in cs
         THEN DeleteCodes(s, p + 2, cs)
         ELSE <<s[p]>> \o DeleteCodes(s, p + 1, cs)

\* The codes the engine consumes: those of the Code Table that the
\* tokenizer matches and so looks up.
ConsumedCodes == TableCodes \cap splitAlphabet

\* C6: the output with its span wrappers removed and un-escaped is the
\* input with exactly the consumed codes deleted; every other character,
\* unmatched markers and the character after them included, appears once
\* and in order, and no consumed code appears literally.
C6_ContentPreserved ==
    Done => TextOf(Segments(formattedHtml))
              = DeleteCodes(originalTextContent, 1, ConsumedCodes)

\* "&l<&6&" decoded: "&l" consumed, "<", "&6" and "&" kept, escaped.
C6_Witness ==
    /\ Done
    /\ originalTextContent = <<Amp, "l", "<", Amp, "6", Amp>>
    /\ formattedHtml =
         spanOpen \o classBold \o spanMid \o <<"&", "l", "t", ";">> \o spanClose
         \o spanOpen \o classBold \o spanMid \o <<"&", "a", "m", "p", ";", "6">>
         \o spanClose
         \o spanOpen \o classBold \o spanMid \o <<"&", "a", "m", "p", ";">>
         \o spanClose

\* ------------------------------------------------------------------------
\* C7
\* ------------------------------------------------------------------------

\* The code alphabet of the specification (section 3): hex digits in both
\* cases, and k l m n o b i r.
SpecAlphabet ==
    {"0", "1", "2", "3", "4", "5", "6", "7", "8", "9"}
    \cup {"a", "b", "c", "d", "e", "f", "A", "B", "C", "D", "E", "F"}
    \cup {"k", "l", "m", "n", "o", "b", "i", "r"}

\* A marker at position p of s that ends s or is followed by a character
\* outside the alphabet.
DanglingMarker(s, p) ==
    /\ s[p] = Amp
    /\ p = Len(s) \/ s[p + 1] \notin SpecAlphabet

RECURSIVE Rebuild(_, _)
\* The first n tokens of ps written out again, each code after its marker.
Rebuild(ps, n) ==
    IF n = 0 THEN <<>>
    ELSE Rebuild(ps, n - 1) \o (IF IsCodeAt(n) THEN <<Amp>> \o ps[n] ELSE ps[n])

\* Position p of the input lies in a text token.
InTextToken(p) ==
    \E n \in 1..Len(parts) :
        /\ ~IsCodeAt(n)
        /\ Len(Rebuild(parts, n - 1)) < p
        /\ p <= Len(Rebuild(parts, n))

\* The tokens are the input cut up, and every dangling marker is text.
C7_NoCodeToken ==
    /\ Rebuild(parts, Len(parts)) = originalTextContent
    /\ \A p \in 1..Len(originalTextContent) :
          DanglingMarker(originalTextContent, p) => InTextToken(p)

\* A text token that holds a marker is emitted whole, escaped, in one
\* segment styled with the current state, which it leaves as it was.
C7_MarkerStep ==
    (AtTextToken /\ Amp \in Range(part)) =>
        /\ StateUnchanged
        /\ Segments(Appended) = <<SpecSegment(ActiveClassList, part)>>

C8_UnrecognizedStep ==
    (AtCodeToken /\ part[1] \notin TableCodes) =>
        /\ StateUnchanged
        /\ i' = i + 1
        /\ Segments(Appended) = <<SpecSegment(ActiveClassList, <<Amp>> \o part)>>

\* C8: a code token with no Code Table entry is emitted, marker and
\* character, as escaped literal text under the text emission rule (a span
\* with the active formats then colour, or bare when none is active), and
\* leaves colour and formats as they were.
C8_UnrecognizedIsLiteral == [][C8_UnrecognizedStep]_vars

\* "&l&1&6" decoded: "&6" literal in a bold, coloured segment.
C8_Witness ==
    /\ Done
    /\ originalTextContent = <<Amp, "l", Amp, "1", Amp, "6">>
    /\ activeClasses = <<classBold>>
    /\ activeColorClass = colorPrefix \o <<"1">>
    /\ formattedHtml =
         spanOpen \o classBold \o <<" ">> \o colorPrefix \o <<"1">> \o spanMid
         \o <<"&", "a", "m", "p", ";", "6">> \o spanClose

\* ------------------------------------------------------------------------
\* C9
\* ------------------------------------------------------------------------

\* C9: every class name in a class attribute of the output belongs to the
\* closed set of the styling contract, and the output is nothing but spans
\* as the engine writes them and escaped text.
C9_ClosedClassSet ==
    Done =>
        LET segs == Segments(formattedHtml)
        IN \A k \in 1..Len(segs) :
              /\ ~segs[k].bad
              /\ \A c \in Range(segs[k].classes) : c \in ClosedClassSet

\* "&l<&1<" decoded: two spans, "<" escaped in both.
C9_Witness ==
    /\ Done
    /\ originalTextContent = <<Amp, "l", "<", Amp, "1", "<">>
    /\ formattedHtml =
         spanOpen \o classBold \o spanMid \o <<"&", "l", "t", ";">> \o spanClose
         \o spanOpen \o classBold \o <<" ">> \o colorPrefix \o <<"1">> \o spanMid
         \o <<"&", "l", "t", ";">> \o spanClose

\* ------------------------------------------------------------------------
\* C10
\* ------------------------------------------------------------------------

\* C10: for an input without a marker the output is escapeHtml of the
\* input: one unwrapped segment, or the empty string for the empty input.
C10_NoCodeIdentity ==
    (Done /\ Amp \notin Range(originalTextContent)) =>
        /\ formattedHtml = escapeHtml(originalTextContent)
        /\ Segments(formattedHtml) =
             IF originalTextContent = <<>> THEN <<>>
             ELSE <<Segment(FALSE, <<>>, SpecEscape(originalTextContent))>>

\* "x<x" decoded.
C10_Witness ==
    /\ Done
    /\ originalTextContent = <<"x", "<", "x">>
    /\ formattedHtml = <<"x", "&", "l", "t", ";", "x">>

\* ------------------------------------------------------------------------
\* Calls one after another (lines 86, 107-112)
\* ------------------------------------------------------------------------

\* The arguments of the calls are made of at most MaxCallPieces pieces.
MaxCallPieces == 2

CallPieces == { <<"&", "1">>, <<"&", "l">>, <<"&", "r">>, <<"&", "6">>, <<"x">> }

CallInputs ==
    { Flatten(ps) : ps \in UNION { [1..n -> CallPieces] : n \in 0..MaxCallPieces } }

CallInit ==
    /\ originalTextContent \in CallInputs
    /\ parts = split(originalTextContent)
    /\ i = 0
    /\ formattedHtml = <<>>
    /\ activeClasses = <<>>
    /\ activeColorClass = NULL
    /\ pc = "loop"
    /\ OthersIdle

\* What the caller holds of the call that has just returned.
thisCall == [called |-> TRUE, text |-> originalTextContent, html |-> formattedHtml]

\* Call with activeClasses and activeColorClass declared outside the
\* function: they keep the values the call before left in them.
CallKeepsStyle(text) ==
    /\ pc = "done"
    /\ earlier' \in {earlier, thisCall}
    /\ originalTextContent' = text
    /\ formattedHtml' = <<>>
    /\ parts' = split(text)
    /\ i' = 0
    /\ pc' = "loop"
    /\ UNCHANGED <<activeClasses, activeColorClass, escVars, domVars>>

\* The next call, once the one before has returned: its own locals are
\* declared and initialised (lines 107-109) and the argument is split (line
\* 112).  The caller may keep the result of the call before.
Call(text) ==
    /\ pc = "done"
    /\ earlier' \in {earlier, thisCall}
    /\ originalTextContent' = text
    /\ formattedHtml' = <<>>
    /\ activeClasses' = <<>>
    /\ activeColorClass' = NULL
    /\ parts' = split(text)
    /\ i' = 0
    /\ pc' = "loop"
    /\ UNCHANGED <<escVars, domVars>>

NextCall == \E text \in CallInputs : Call(text)

CallNext ==
    \/ StepUnrecognized
    \/ StepReset
    \/ StepColor
    \/ StepFormat
    \/ StepText
    \/ StepEmptyText
    \/ Return
    \/ NextCall

CallSpec == CallInit /\ [][CallNext]_vars

\* ------------------------------------------------------------------------
\* C11
\* ------------------------------------------------------------------------

\* A call starts with no colour, no formats and no output.
C11_CleanStart ==
    (pc = "loop" /\ i = 0) =>
        /\ activeClasses = <<>>
        /\ activeColorClass = NULL
        /\ formattedHtml = <<>>

\* A call on the argument of an earlier call returns what that call did.
C11_SameResult ==
    (Done /\ earlier.called /\ earlier.text = originalTextContent) =>
        formattedHtml = earlier.html

\* C11: decoding state never leaks between calls: every call starts with no
\* active colour and no active formats, whatever the call before left, and
\* decoding the same input again gives the same output.
C11_NoLeakBetweenCalls == C11_CleanStart /\ C11_SameResult

\* "&1x" decoded a second time, after calls that ended with a colour active.
C11_Witness ==
    /\ Done
    /\ earlier.called
    /\ earlier.text = <<Amp, "1", "x">>
    /\ originalTextContent = <<Amp, "1", "x">>
    /\ activeColorClass = colorPrefix \o <<"1">>
    /\ formattedHtml =
         spanOpen \o colorPrefix \o <<"1">> \o spanMid \o <<"x">> \o spanClose

\* ------------------------------------------------------------------------
\* escapeHtml called on its own, and on its own result (lines 68-77)
\* ------------------------------------------------------------------------

\* The arguments are the strings of at most MaxEscLen of these characters.
MaxEscLen == 3

EscChars == {"&", "<", ">", "\"", "'", "x"}

EscInputs == UNION { [1..n -> EscChars] : n \in 0..MaxEscLen }

EscInit ==
    /\ EngineIdle
    /\ earlier = NoCall
    /\ escArg \in EscInputs
    /\ escResult = <<>> /\ escAgain = <<>> /\ escCalls = 0
    /\ messages = <<>> /\ statuses = <<>>
    /\ pending = FALSE /\ stopped = FALSE

\* escapeHtml(text).
Escape ==
    /\ escCalls = 0
    /\ escResult' = escapeHtml(escArg)
    /\ escCalls' = 1
    /\ UNCHANGED <<engineVars, callerVars, domVars, escArg, escAgain>>

\* escapeHtml(escapeHtml(text)).
EscapeAgain ==
    /\ escCalls = 1
    /\ escAgain' = escapeHtml(escResult)
    /\ escCalls' = 2
    /\ UNCHANGED <<engineVars, callerVars, domVars, escArg, escResult>>

EscNext == Escape \/ EscapeAgain

EscSpec == EscInit /\ [][EscNext]_vars

\* ------------------------------------------------------------------------
\* C14
\* ------------------------------------------------------------------------

HasSpecial(t) == \E k \in 1..Len(t) : t[k] \in {"&", "<", ">", "\"", "'"}

\* C14: escapeHtml is total and replaces, character by character and in
\* order, & < > " ' by &amp; &lt; &gt; &quot; &#039;, leaving every other
\* character as it is; escaping the result of a string that holds one of the
\* five changes it again, and a string that holds none is returned as it is.
C14_EscapeHtml ==
    /\ (escCalls = 0) => ENABLED Escape
    /\ (escCalls >= 1) =>
          /\ escResult = SpecEscape(escArg)
          /\ (~HasSpecial(escArg)) => (escResult = escArg)
    /\ (escCalls = 2 /\ HasSpecial(escArg)) => (escAgain # escResult)

\* "<x'" escaped, and escaped again.
C14_Witness ==
    /\ escCalls = 2
    /\ escArg = <<"<", "x", "'">>
    /\ escResult = <<"&", "l", "t", ";", "x", "&", "#", "0", "3", "9", ";">>
    /\ escAgain = <<"&", "a", "m", "p", ";", "l", "t", ";", "x",
                    "&", "a", "m", "p", ";", "#", "0", "3", "9", ";">>

\* ------------------------------------------------------------------------
\* C13
\* ------------------------------------------------------------------------

\* The positions of s where "&l" or "&b" stands.
AliasPositions(s) ==
    { p \in 1..(Len(s) - 1) : s[p] = Amp /\ s[p + 1] \in {"l", "b"} }

OtherAlias(c) == IF c = "l" THEN "b" ELSE "l"

\* The strings s becomes when some of its "&l" and "&b" are exchanged.
AliasVariants(s) ==
    { [k \in 1..Len(s) |-> IF (k - 1) \in S THEN OtherAlias(s[k]) ELSE s[k]] :
        S \in SUBSET AliasPositions(s) }

\* How many times class c stands in class list cs.
Occurrences(cs, c) == Cardinality({ k \in 1..Len(cs) : cs[k] = c })

\* C13: "&b" and "&l" are interchangeable: exchanging any of them in the
\* input leaves the output as it is, and the bold class stands at most once
\* in a class list, also when both occur.
C13_AliasesInterchangeable ==
    Done =>
        /\ \A v \in AliasVariants(originalTextContent) :
              formatMessageBoardText(v) = formattedHtml
        /\ LET segs == Segments(formattedHtml)
           IN \A k \in 1..Len(segs) : Occurrences(segs[k].classes, classBold) <= 1

\* "&b&n&lx" decoded: bold once, where "&b" put it.
C13_Witness ==
    /\ Done
    /\ originalTextContent = <<Amp, "b", Amp, "n", Amp, "l", "x">>
    /\ formattedHtml =
         spanOpen \o classBold \o <<" ">> \o classUnderline \o spanMid
         \o <<"x">> \o spanClose

\* ------------------------------------------------------------------------
\* C15
\* ------------------------------------------------------------------------

C15_Step ==
    /\ AtTextToken => StateUnchanged
    /\ (AtCodeToken /\ part[1] \in TableColorCodes) =>
          /\ activeClasses' = activeClasses
          /\ formattedHtml' = formattedHtml
    /\ (AtCodeToken /\ part[1] \in TableFormatCodes) =>
          /\ activeColorClass' = activeColorClass
          /\ formattedHtml' = formattedHtml
    /\ LET segs == Segments(Appended)
       IN Len(segs) <= 1 /\ \A k \in 1..Len(segs) : ~segs[k].bad

\* C15: a text token leaves colour and formats as they are; a colour code
\* leaves the formats as they are and emits nothing; a format code leaves
\* the colour as it is and emits nothing; a step emits at most one segment.
C15_FrameOfEachStep == [][C15_Step]_vars

\* "&l&1&nx" decoded: the colour kept across "&n", the formats across "&1".
C15_Witness ==
    /\ Done
    /\ originalTextContent = <<Amp, "l", Amp, "1", Amp, "n", "x">>
    /\ activeClasses = <<classBold, classUnderline>>
    /\ activeColorClass = colorPrefix \o <<"1">>
    /\ formattedHtml =
         spanOpen \o classBold \o <<" ">> \o classUnderline \o <<" ">>
         \o colorPrefix \o <<"1">> \o spanMid \o <<"x">> \o spanClose

\* ------------------------------------------------------------------------
\* C16
\* ------------------------------------------------------------------------

\* No span of the markup is empty or has an empty class attribute.
C16_NoEmptySpan ==
    LET segs == Segments(formattedHtml)
    IN \A k \in 1..Len(segs) :
          /\ ~segs[k].bad
          /\ segs[k].wrapped =>
                /\ segs[k].text # <<>>
                /\ segs[k].classes # <<>>
                /\ \A c \in Range(segs[k].classes) : c # <<>>

\* The tokens are codes of the Code Table with nothing between them.
OnlyTableCodes ==
    \A n \in 1..Len(parts) :
        IF IsCodeAt(n) THEN parts[n][1] \in TableCodes ELSE parts[n] = <<>>

\* An empty text token emits nothing and changes neither colour nor formats.
C16_EmptyTextStep ==
    (AtTextToken /\ Len(part) = 0) =>
        /\ StateUnchanged
        /\ formattedHtml' = formattedHtml

\* C16: the output holds no span with empty content or an empty class
\* attribute; an empty text token between two codes emits nothing and leaves
\* the state as if the codes were adjacent; an input of recognised codes
\* only gives the empty string.
C16_MinimalMarkup ==
    /\ [](C16_NoEmptySpan)
    /\ []((Done /\ OnlyTableCodes) => formattedHtml = <<>>)
    /\ [][C16_EmptyTextStep]_vars

\* "&1&l&r&2" decoded: nothing emitted, the last colour active.
C16_Witness ==
    /\ Done
    /\ originalTextContent = <<Amp, "1", Amp, "l", Amp, "r", Amp, "2">>
    /\ formattedHtml = <<>>
    /\ activeClasses = <<>>
    /\ activeColorClass = colorPrefix \o <<"2">>

\* ------------------------------------------------------------------------
\* The document: applyMessageBoardFormatting (lines 167-186),
\* applyStatusStyles (lines 194-216) and the observer (lines 221-237)
\* ------------------------------------------------------------------------

\* The .message and the .status-value elements a page may hold.
MessageIds == {"m1", "m2"}
StatusIds == {"s1", "s2"}

\* The texts the page gives a message: without a marker, with a colour
\* code, and with a marker that starts no code.
MessageTexts == { <<"x">>, <<Amp, "1", "x">>, <<Amp, "x">> }

\* The innerHTML of an element whose only child is a text node of data t.
serializeText(t) ==
    Flatten([k \in 1..Len(t) |->
               IF t[k] = "&" THEN <<"&", "a", "m", "p", ";">>
               ELSE IF t[k] = "<" THEN <<"&", "l", "t", ";">>
               ELSE IF t[k] = ">" THEN <<"&", "g", "t", ";">>
               ELSE <<t[k]>>])

\* The innerHTML a message element can have: empty, written by the page,
\* or written by line 178.
MessageHtmls ==
    {<<>>} \cup { serializeText(t) : t \in MessageTexts }
           \cup { formatMessageBoardText(t) : t \in MessageTexts }

\* The text of the nodes an innerHTML stands for, tabulated.
textContentOf == [h \in MessageHtmls |-> TextOf(Segments(h))]

\* element.textContent
textContent(element) == textContentOf[element.innerHTML]

\* formatMessageBoardText on the texts a message element can have,
\* tabulated.
formattedHtmlOf ==
    [t \in MessageTexts \cup { textContentOf[h] : h \in MessageHtmls } |->
        formatMessageBoardText(t)]

\* String.prototype.includes, for one character.
includes(s, c) == \E k \in 1..Len(s) : s[k] = c

formattedByJs == "formatted-by-js"

\* No such element in the document.
NoMessage == [present |-> FALSE, innerHTML |-> <<>>, classList |-> {}, decodes |-> 0]

\* A .message element as the page writes it; decodes counts the calls of
\* formatMessageBoardText on its text (line 177).
newMessage(t) ==
    [present |-> TRUE, innerHTML |-> serializeText(t), classList |-> {}, decodes |-> 0]

\* The callback of lines 170-182 without the test and the mark of lines
\* 172 and 179.
formatMessageUnmarked(messageBoardElement) ==
    IF /\ messageBoardElement.present
       /\ includes(textContent(messageBoardElement), "&")
    THEN [messageBoardElement EXCEPT
            !.innerHTML = formattedHtmlOf[textContent(messageBoardElement)],
            !.decodes = @ + 1]
    ELSE messageBoardElement

\* The callback of lines 170-182 with the mark of line 179 after the test
\* of line 176 instead of inside it.
formatMessageMarksAll(messageBoardElement) ==
    IF messageBoardElement.present /\ formattedByJs \notin messageBoardElement.classList
    THEN IF includes(textContent(messageBoardElement), "&")
         THEN [messageBoardElement EXCEPT
                 !.innerHTML = formattedHtmlOf[textContent(messageBoardElement)],
                 !.classList = @ \cup {formattedByJs},
                 !.decodes = @ + 1]
         ELSE [messageBoardElement EXCEPT !.classList = @ \cup {formattedByJs}]
    ELSE messageBoardElement

\* The callback of lines 170-182, on one element.
formatMessage(messageBoardElement) ==
    IF /\ messageBoardElement.present
       /\ formattedByJs \notin messageBoardElement.classList
       /\ includes(textContent(messageBoardElement), "&")
    THEN [messageBoardElement EXCEPT
            !.innerHTML = formattedHtmlOf[textContent(messageBoardElement)],
            !.classList = @ \cup {formattedByJs},
            !.decodes = @ + 1]
    ELSE messageBoardElement

\* Lines 167-183.
applyMessageBoardFormatting(messageElements) ==
    [id \in MessageIds |-> formatMessage(messageElements[id])]

\* Child nodes of a status element: text nodes and element nodes.
TextNode(data) == [nodeType |-> "TEXT_NODE", textContent |-> data]
ElementNode == [nodeType |-> "ELEMENT_NODE", textContent |-> <<>>]

IN_PRODUCTION == <<"I", "N", " ", "P", "R", "O", "D", "U", "C", "T", "I", "O", "N">>
READY_FOR_PRODUCTION == <<"R", "E", "A", "D", "Y", " ", "F", "O", "R", " ">> \o
                        <<"P", "R", "O", "D", "U", "C", "T", "I", "O", "N">>
statusInProduction == "status-in-production"
statusReadyForProduction == "status-ready-for-production"

\* The child node lists the page gives a status element.
StatusChildNodes ==
    { <<TextNode(<<" ">> \o IN_PRODUCTION \o <<" ">>)>>,
      <<TextNode(READY_FOR_PRODUCTION)>>,
      <<TextNode(<<"D", "O", "N", "E">>)>>,
      <<ElementNode, TextNode(IN_PRODUCTION)>>,
      <<TextNode(<<" ">>), ElementNode, TextNode(READY_FOR_PRODUCTION)>> }

RECURSIVE trimStart(_)
trimStart(s) ==
    IF s # <<>> /\ Head(s) = " " THEN trimStart(Tail(s)) ELSE s

RECURSIVE trimEnd(_)
trimEnd(s) ==
    IF s # <<>> /\ s[Len(s)] = " " THEN trimEnd(SubSeq(s, 1, Len(s) - 1)) ELSE s

\* String.prototype.trim
trim(s) == trimEnd(trimStart(s))

\* Lines 201-208: the first text node's content, trimmed; '' without one.
statusText(childNodes) ==
    LET texts == { k \in 1..Len(childNodes) : childNodes[k].nodeType = "TEXT_NODE" }
    IN IF texts = {} THEN <<>>
       ELSE LET first == CHOOSE k \in texts : \A j \in texts : k <= j
            IN trim(childNodes[first].textContent)

NoStatus == [present |-> FALSE, childNodes |-> <<>>, classList |-> {}]
newStatus(childNodes) == [present |-> TRUE, childNodes |-> childNodes, classList |-> {}]

\* The callback of lines 195-215 without the skip of lines 197-199.
applyStatusStyleWithoutSkip(element) ==
    IF ~element.present THEN element
    ELSE IF statusText(element.childNodes) = IN_PRODUCTION
    THEN [element EXCEPT !.classList = @ \cup {statusInProduction}]
    ELSE IF statusText(element.childNodes) = READY_FOR_PRODUCTION
    THEN [element EXCEPT !.classList = @ \cup {statusReadyForProduction}]
    ELSE element

\* The callback of lines 195-215, on one element.
applyStatusStyle(element) ==
    IF ~element.present THEN element
    ELSE IF \/ statusInProduction \in element.classList
            \/ statusReadyForProduction \in element.classList
    THEN element
    ELSE IF statusText(element.childNodes) = IN_PRODUCTION
    THEN [element EXCEPT !.classList = @ \cup {statusInProduction}]
    ELSE IF statusText(element.childNodes) = READY_FOR_PRODUCTION
    THEN [element EXCEPT !.classList = @ \cup {statusReadyForProduction}]
    ELSE element

\* Lines 194-216.
applyStatusStyles(elements) ==
    [id \in StatusIds |-> applyStatusStyle(elements[id])]

\* An observer that is also told of attribute changes.
observerOptionsWithAttributes ==
    [childList |-> TRUE, subtree |-> TRUE, characterData |-> TRUE, attributes |-> TRUE]

\* Lines 228-232: the options of observer.observe(document.body, ...).
observerOptions ==
    [childList |-> TRUE, subtree |-> TRUE, characterData |-> TRUE, attributes |-> FALSE]

\* A mutation of this kind below document.body queues a record.
observes(kind) == observerOptions.subtree /\ observerOptions[kind]

\* The document when the script has run to its end: the elements of the
\* page, the status elements styled by the call of line 237.
DomInit ==
    /\ EngineIdle
    /\ earlier = NoCall
    /\ escArg = <<>> /\ escResult = <<>> /\ escAgain = <<>> /\ escCalls = 0
    /\ messages \in [MessageIds -> {NoMessage} \cup { newMessage(t) : t \in MessageTexts }]
    /\ statuses \in
         { applyStatusStyles(page) :
             page \in [StatusIds -> {NoStatus} \cup { newStatus(n) : n \in StatusChildNodes }] }
    /\ pending = FALSE
    /\ stopped = FALSE

\* Line 186: one run of applyMessageBoardFormatting by the interval timer.
\* It is a task of its own, so the observer's callback has run before it.
IntervalTick ==
    /\ ~pending
    /\ messages' = applyMessageBoardFormatting(messages)
    /\ pending' =
         /\ \E id \in MessageIds : messages'[id].decodes # messages[id].decodes
         /\ observes("childList") \/ observes("attributes")
    /\ UNCHANGED <<statuses, stopped>>
    /\ UNCHANGED <<engineVars, callerVars, escVars>>

\* Lines 221-225: the observer's callback takes the queued records.
ObserverCallback ==
    /\ pending
    /\ statuses' = applyStatusStyles(statuses)
    /\ pending' = (statuses' # statuses /\ observes("attributes"))
    /\ UNCHANGED <<messages, stopped>>
    /\ UNCHANGED <<engineVars, callerVars, escVars>>

\* The page adds a .message element.
AddMessage(id, t) ==
    /\ ~stopped
    /\ ~messages[id].present
    /\ messages' = [messages EXCEPT ![id] = newMessage(t)]
    /\ pending' = (pending \/ observes("childList"))
    /\ UNCHANGED <<statuses, stopped>>
    /\ UNCHANGED <<engineVars, callerVars, escVars>>

\* The page sets the text of a .message element; its classes stay.
ChangeMessage(id, t) ==
    /\ ~stopped
    /\ messages[id].present
    /\ messages[id].innerHTML # serializeText(t)
    /\ messages' = [messages EXCEPT ![id].innerHTML = serializeText(t)]
    /\ pending' = (pending \/ observes("childList"))
    /\ UNCHANGED <<statuses, stopped>>
    /\ UNCHANGED <<engineVars, callerVars, escVars>>

\* The page adds a .status-value element.
AddStatus(id, n) ==
    /\ ~stopped
    /\ ~statuses[id].present
    /\ statuses' = [statuses EXCEPT ![id] = newStatus(n)]
    /\ pending' = (pending \/ observes("childList"))
    /\ UNCHANGED <<messages, stopped>>
    /\ UNCHANGED <<engineVars, callerVars, escVars>>

\* The page changes the text or the children of a .status-value element;
\* its classes stay.
ChangeStatus(id, n) ==
    /\ ~stopped
    /\ statuses[id].present
    /\ statuses[id].childNodes # n
    /\ statuses' = [statuses EXCEPT ![id].childNodes = n]
    /\ pending' = (pending \/ observes("childList") \/ observes("characterData"))
    /\ UNCHANGED <<messages, stopped>>
    /\ UNCHANGED <<engineVars, callerVars, escVars>>

\* The page makes its last change.
Stop ==
    /\ ~stopped
    /\ stopped' = TRUE
    /\ UNCHANGED <<messages, statuses, pending>>
    /\ UNCHANGED <<engineVars, callerVars, escVars>>

PageAddsMessage == \E id \in MessageIds, t \in MessageTexts : AddMessage(id, t)
PageChangesMessage == \E id \in MessageIds, t \in MessageTexts : ChangeMessage(id, t)
PageAddsStatus == \E id \in StatusIds, n \in StatusChildNodes : AddStatus(id, n)
PageChangesStatus == \E id \in StatusIds, n \in StatusChildNodes : ChangeStatus(id, n)

DomNext ==
    \/ IntervalTick
    \/ ObserverCallback
    \/ PageAddsMessage
    \/ PageChangesMessage
    \/ PageAddsStatus
    \/ PageChangesStatus
    \/ Stop

DomSpec == DomInit /\ [][DomNext]_vars

\* The timer fires again and again, and a queued callback is run.
FairDomSpec ==
    DomSpec /\ WF_vars(IntervalTick) /\ WF_vars(ObserverCallback)

\* ------------------------------------------------------------------------
\* C12
\* ------------------------------------------------------------------------

IsMarked(m) == formattedByJs \in m.classList

\* The engine has run at most once on each element, and an element it has
\* run on carries the mark.
C12_DecodedOnce ==
    \A id \in MessageIds :
        /\ messages[id].decodes <= 1
        /\ messages[id].decodes >= 1 => IsMarked(messages[id])

\* No step runs the engine on a marked element, rewrites it in running the
\* engine, or takes its mark.
C12_MarkedStep ==
    \A id \in MessageIds :
        IsMarked(messages[id]) =>
            /\ IsMarked(messages'[id])
            /\ messages'[id].decodes = messages[id].decodes

\* C12: across the scan ticks the engine runs at most once on each message
\* element and never on its own output: a decorated element carries
\* formatted-by-js, and no later tick decodes or rewrites it.
C12_EngineOncePerElement == [](C12_DecodedOnce) /\ [][C12_MarkedStep]_vars

\* A decorated element whose text still holds a marker, with the timer
\* free to fire again.
C12_Witness ==
    /\ ~pending
    /\ \E id \in MessageIds :
          /\ IsMarked(messages[id])
          /\ messages[id].decodes = 1
          /\ messages[id].innerHTML = <<"&", "a", "m", "p", ";", "x">>
          /\ includes(textContent(messages[id]), Amp)

\* ------------------------------------------------------------------------
\* C17
\* ------------------------------------------------------------------------

\* The classes of a status element are those its text asks for.
StyledCorrectly(element) ==
    /\ statusInProduction \in element.classList
         <=> statusText(element.childNodes) = IN_PRODUCTION
    /\ statusReadyForProduction \in element.classList
         <=> statusText(element.childNodes) = READY_FOR_PRODUCTION

\* C17: when the observer's callback has run after a change, every status
\* element carries status-in-production exactly when its first text node,
\* trimmed, is "IN PRODUCTION" and status-ready-for-production exactly when
\* it is "READY FOR PRODUCTION", also when its text changed after it was
\* classified.
C17_StyledCorrectlyAfterCallback ==
    ~pending =>
        \A id \in StatusIds : statuses[id].present => StyledCorrectly(statuses[id])

\* ------------------------------------------------------------------------
\* C18
\* ------------------------------------------------------------------------

\* An element the scan decodes: unmarked, its text holding a marker.
Eligible(m) == m.present /\ ~IsMarked(m) /\ includes(textContent(m), Amp)

\* The step marks or decodes some element: the scan acted.
ScanActed ==
    \E id \in MessageIds :
        \/ messages'[id].classList # messages[id].classList
        \/ messages'[id].decodes # messages[id].decodes

\* A scan that acts decodes and marks every eligible element and leaves
\* every other element as it is.
C18_ScanStep ==
    ScanActed =>
        \A id \in MessageIds :
            IF Eligible(messages[id])
            THEN /\ IsMarked(messages'[id])
                 /\ messages'[id].innerHTML
                      = formatMessageBoardText(textContent(messages[id]))
                 /\ TextOf(Segments(messages'[id].innerHTML))
                      = DeleteCodes(textContent(messages[id]), 1, ConsumedCodes)
            ELSE messages'[id] = messages[id]

\* The timer can act whenever an element is eligible and no callback waits.
C18_NextTickActs ==
    (~pending /\ \E id \in MessageIds : Eligible(messages[id]))
        => ENABLED <<IntervalTick>>_vars

\* C18: an unmarked message element whose text holds '&' is decoded and
\* marked by the next scan tick; an unmarked element without '&' is left
\* as it is by every tick, and is decoded by the first tick after its text
\* comes to hold '&'.
C18_ScanCatchesNewMessages ==
    /\ [][C18_ScanStep]_vars
    /\ [](C18_NextTickActs)
    /\ \A id \in MessageIds :
          (stopped /\ Eligible(messages[id])) ~> IsMarked(messages[id])

\* One element decoded and marked, the other without '&' and untouched.
C18_Witness ==
    /\ ~pending
    /\ messages["m1"].innerHTML
         = spanOpen \o colorPrefix \o <<"1">> \o spanMid \o <<"x">> \o spanClose
    /\ IsMarked(messages["m1"])
    /\ messages["m2"] = newMessage(<<"x">>)

\* ------------------------------------------------------------------------
\* C19
\* ------------------------------------------------------------------------

StatusClasses == {statusInProduction, statusReadyForProduction}

C19_NotBoth ==
    \A id \in StatusIds : ~(StatusClasses \subseteq statuses[id].classList)

\* Classes are only added, at most one to an element, none to an element
\* that has one.
C19_StylesStep ==
    \A id \in StatusIds :
        /\ statuses[id].classList \subseteq statuses'[id].classList
        /\ Cardinality(statuses'[id].classList \ statuses[id].classList) <= 1
        /\ (statuses[id].classList \cap StatusClasses # {})
              => statuses'[id].classList = statuses[id].classList

\* C19: no status element carries both status classes; applyStatusStyles
\* only adds a class, at most one to an element, and changes no element
\* that has either class.
C19_AtMostOneStatusClass == [](C19_NotBoth) /\ [][C19_StylesStep]_vars

\* A classified element whose text now asks for the other class, after the
\* callback has run on it.
C19_Witness ==
    /\ ~pending
    /\ \E id \in StatusIds :
          /\ statuses[id].classList = {statusInProduction}
          /\ statusText(statuses[id].childNodes) = READY_FOR_PRODUCTION

\* ------------------------------------------------------------------------
\* C20
\* ------------------------------------------------------------------------

\* Nothing waits: no callback is queued and no element is eligible.
Quiescent ==
    /\ ~pending
    /\ \A id \in MessageIds : ~Eligible(messages[id])

\* A step that changes the classes of a status element queues no callback.
C20_StylesStep ==
    (\E id \in StatusIds : statuses'[id].classList # statuses[id].classList)
        => ~pending'

\* A scan rewrites no element a scan has written.
C20_RewriteStep ==
    \A id \in MessageIds :
        messages'[id].decodes # messages[id].decodes => messages[id].decodes = 0

\* Nothing changes once the page has stopped and nothing waits.
C20_QuietStep ==
    (stopped /\ Quiescent) => UNCHANGED <<messages, statuses, pending>>

\* C20: the observer's callback queues no callback, a scan rewrites each
\* message element at most once, and after the page's last change the
\* ticks and callbacks reach a state in which they change nothing.
C20_ReachesQuiescence ==
    /\ [][C20_StylesStep /\ C20_RewriteStep /\ C20_QuietStep]_vars
    /\ stopped ~> Quiescent

\* The page has stopped, the scan has decoded, the callback has styled,
\* and nothing waits.
C20_Witness ==
    /\ stopped
    /\ Quiescent
    /\ \E id \in MessageIds : messages[id].decodes = 1
    /\ \E id \in StatusIds :
          /\ statuses[id].childNodes = <<ElementNode, TextNode(IN_PRODUCTION)>>
          /\ statuses[id].classList = {statusInProduction}

=============================================================================
